---- MODULE Spec2Model ----
(***************************************************************************)
(* The Image Augmenter: the augmentation pipeline (ImageProcessor over     *)
(* AugmentationEngine), the image loader and the batch generator.          *)
(*                                                                         *)
(* Representation.                                                         *)
(*  - Text (file names, preset names) is a sequence of one-character       *)
(*    strings, so that lower(), splitext() and number formatting are       *)
(*    computed and not assumed.                                            *)
(*  - Python objects live in two heaps, images and dicts: functions from   *)
(*    object identities to contents.  A new object takes the least free    *)
(*    identity; an object that became unreachable is removed.              *)
(*  - An image's pixels are abstract: its size and the list of engine      *)
(*    operations that produced them from the decoded file.                 *)
(*  - The float factors (brightness, ...) are kept in hundredths: 1.0 is   *)
(*    100.  The loader's resize arithmetic is IEEE double, digit by digit.*)
(***************************************************************************)
EXTENDS Integers, Sequences, FiniteSets, TLC

VARIABLES
    \* the two object heaps and the process-wide random source
    images, dicts, rng,
    \* BatchGenerator.generate_batch / generate_with_preset: the running call
    pc, mode, count, base_name, has_callback, i,
    generated_count, failed_count, failed_files,
    preset_params, augmentation_params, augmented_image,
    err, result, folder, folder0, log,
    \* a direct call of ImageProcessor.apply_transformations
    t_params, t_out,
    \* a call of ImageProcessor.load_and_validate_image
    file_obj, load_out,
    \* the caller of get_preset_params / _vary_preset_params
    held, first_ret, last_name, last_ret

vars == <<images, dicts, rng, pc, mode, count, base_name, has_callback, i,
          generated_count, failed_count, failed_files, preset_params,
          augmentation_params, augmented_image, err, result, folder, folder0,
          log, t_params, t_out, file_obj, load_out, held, first_ret, last_name, last_ret>>

batch_vars == <<pc, mode, count, base_name, has_callback, i,
                generated_count, failed_count, failed_files, preset_params,
                augmentation_params, augmented_image, err, result, folder,
                folder0, log>>

None == "None"

----------------------------------------------------------------------------
(* Mappings (Python dict): a function whose domain is the set of keys.     *)

EmptyMap == [k \in {} |-> 0]

Put(m, k, v) == [x \in (DOMAIN m) \cup {k} |-> IF x = k THEN v ELSE m[x]]

Del(m, k) == [x \in (DOMAIN m) \ {k} |-> m[x]]

\* dict.get(k, default)
Get(m, k, default) == IF k \in DOMAIN m THEN m[k] ELSE default

\* the identity a newly created object gets
FreshId(heap) ==
    CHOOSE n \in 1..(Cardinality(DOMAIN heap) + 1) :
        n \notin DOMAIN heap /\ \A m \in 1..(n - 1) : m \in DOMAIN heap

\* the heap without the objects outside `live`
Collect(heap, live) == [x \in (DOMAIN heap) \cap live |-> heap[x]]

\* x evaluated once and handed to F
Then(x, F(_)) == CHOOSE r \in {F(v) : v \in {x}} : TRUE

Max(a, b) == IF a >= b THEN a ELSE b

Min(a, b) == IF a <= b THEN a ELSE b

----------------------------------------------------------------------------
(* AugmentationEngine.  Every operator returns [heap, ret, raised]: the    *)
(* image heap after the call, the returned object, whether it raised.      *)

\* The size of the decoded base image of a run.
ImageSizes == {<<800, 600>>, <<4, 3>>}

Pixels(w, h) == [w |-> w, h |-> h, hist |-> <<>>]

NewImage(heap, px) ==
    [heap |-> Put(heap, FreshId(heap), px), ret |-> FreshId(heap), raised |-> FALSE]

SameImage(heap, image) == [heap |-> heap, ret |-> image, raised |-> FALSE]

Raised(heap) == [heap |-> heap, ret |-> 0, raised |-> TRUE]

Derived(px, op) == [px EXCEPT !.hist = Append(@, op)]

\* Image.copy(): a new object with the same pixels
image_copy_alias(heap, image) == SameImage(heap, image)

image_copy(heap, image) == NewImage(heap, heap[image])

rotate(heap, image, angle) ==
    IF angle = 0
    THEN SameImage(heap, image)
    ELSE NewImage(heap, Derived(heap[image], <<"rotate", angle>>))

flip_horizontal(heap, image) ==
    NewImage(heap, Derived(heap[image], <<"flip_horizontal">>))

flip_vertical(heap, image) ==
    NewImage(heap, Derived(heap[image], <<"flip_vertical">>))

adjust_brightness(heap, image, factor) ==
    NewImage(heap, Derived(heap[image], <<"adjust_brightness", factor>>))

adjust_contrast(heap, image, factor) ==
    NewImage(heap, Derived(heap[image], <<"adjust_contrast", factor>>))

adjust_saturation(heap, image, factor) ==
    NewImage(heap, Derived(heap[image], <<"adjust_saturation", factor>>))

adjust_sharpness(heap, image, factor) ==
    NewImage(heap, Derived(heap[image], <<"adjust_sharpness", factor>>))

NoiseSigma == 15

BlurKernelSize == 5

MotionBlurSize == 15

PixelSize == 5

add_gaussian_noise(heap, image) ==
    NewImage(heap, Derived(heap[image], <<"add_gaussian_noise", NoiseSigma>>))

\* gaussian_blur(image, kernel_size): the radius is kernel_size // 2; `refuses`
\* is whether the imaging library rejects a negative radius
gaussian_blur_sized(heap, image, kernel_size, refuses) ==
    IF kernel_size \div 2 < 0 /\ refuses
    THEN Raised(heap)
    ELSE NewImage(heap, Derived(heap[image], <<"gaussian_blur", kernel_size \div 2>>))

gaussian_blur(heap, image) == gaussian_blur_sized(heap, image, BlurKernelSize, FALSE)

\* motion_blur(image, size): np.zeros((size, size)) refuses a negative size
\* and the assignment to the central row has no row to go to when size is 0
motion_blur_sized(heap, image, size) ==
    IF size < 1
    THEN Raised(heap)
    ELSE NewImage(heap, Derived(heap[image], <<"motion_blur", size>>))

motion_blur(heap, image) == motion_blur_sized(heap, image, MotionBlurSize)

\* pixelate(image, pixel_size): // raises on 0 and is negative for a negative
\* pixel_size, and Image.resize refuses a size with a dimension below 1
\* (ValueError)
pixelate_sized(heap, image, pixel_size) ==
    IF pixel_size < 1
    THEN Raised(heap)
    ELSE LET px == heap[image]
             small_w == px.w \div pixel_size
             small_h == px.h \div pixel_size
         IN  IF small_w < 1 \/ small_h < 1
             THEN Raised(heap)
             ELSE NewImage(heap, Derived(px, <<"pixelate", small_w, small_h>>))

pixelate(heap, image) == pixelate_sized(heap, image, PixelSize)

----------------------------------------------------------------------------
(* ImageProcessor.apply_transformations.  The state threaded through the   *)
(* body: the heap, the local `result`, whether a call raised, and the      *)
(* engine calls made so far (operation, argument object, returned object). *)

\* Python truth of a flag value
Truthy(v) == v = TRUE

Invoke(st, op, r) ==
    [heap |-> r.heap, cur |-> r.ret, raised |-> r.raised,
     calls |-> Append(st.calls, [op |-> op, arg |-> st.cur, ret |-> r.ret])]

Enter(r) == [heap |-> r.heap, cur |-> r.ret, raised |-> r.raised, calls |-> <<>>]

\* `if params.get('rotation'...): result = self.engine.rotate(...)`
if_rotation(s, params) ==
    IF ~s.raised /\ Get(params, "rotation", 0) # 0
    THEN Invoke(s, "rotate", rotate(s.heap, s.cur, params["rotation"]))
    ELSE s

\* `if params.get('flip_horizontal'...): result = self.engine.flip_horizontal(...)`
if_flip_horizontal(s, params) ==
    IF ~s.raised /\ Truthy(Get(params, "flip_horizontal", FALSE))
    THEN Invoke(s, "flip_horizontal", flip_horizontal(s.heap, s.cur))
    ELSE s

\* `if params.get('flip_vertical'...): result = self.engine.flip_vertical(...)`
if_flip_vertical(s, params) ==
    IF ~s.raised /\ Truthy(Get(params, "flip_vertical", FALSE))
    THEN Invoke(s, "flip_vertical", flip_vertical(s.heap, s.cur))
    ELSE s

\* `if params.get('brightness'...): result = self.engine.adjust_brightness(...)`
if_brightness(s, params) ==
    IF ~s.raised /\ Get(params, "brightness", 100) # 100
    THEN Invoke(s, "adjust_brightness", adjust_brightness(s.heap, s.cur, params["brightness"]))
    ELSE s

\* `if params.get('contrast'...): result = self.engine.adjust_contrast(...)`
if_contrast(s, params) ==
    IF ~s.raised /\ Get(params, "contrast", 100) # 100
    THEN Invoke(s, "adjust_contrast", adjust_contrast(s.heap, s.cur, params["contrast"]))
    ELSE s

\* `if params.get('saturation'...): result = self.engine.adjust_saturation(...)`
if_saturation(s, params) ==
    IF ~s.raised /\ Get(params, "saturation", 100) # 100
    THEN Invoke(s, "adjust_saturation", adjust_saturation(s.heap, s.cur, params["saturation"]))
    ELSE s

\* `if params.get('sharpness'...): result = self.engine.adjust_sharpness(...)`
if_sharpness(s, params) ==
    IF ~s.raised /\ Get(params, "sharpness", 100) # 100
    THEN Invoke(s, "adjust_sharpness", adjust_sharpness(s.heap, s.cur, params["sharpness"]))
    ELSE s

\* `if params.get('gaussian_noise'...): result = self.engine.add_gaussian_noise(...)`
if_gaussian_noise(s, params) ==
    IF ~s.raised /\ Truthy(Get(params, "gaussian_noise", FALSE))
    THEN Invoke(s, "add_gaussian_noise", add_gaussian_noise(s.heap, s.cur))
    ELSE s

\* `if params.get('gaussian_blur'...): result = self.engine.gaussian_blur(...)`
if_gaussian_blur(s, params) ==
    IF ~s.raised /\ Truthy(Get(params, "gaussian_blur", FALSE))
    THEN Invoke(s, "gaussian_blur", gaussian_blur(s.heap, s.cur))
    ELSE s

\* `if params.get('motion_blur'...): result = self.engine.motion_blur(...)`
if_motion_blur(s, params) ==
    IF ~s.raised /\ Truthy(Get(params, "motion_blur", FALSE))
    THEN Invoke(s, "motion_blur", motion_blur(s.heap, s.cur))
    ELSE s

\* `if params.get('pixelate'...): result = self.engine.pixelate(...)`
if_pixelate(s, params) ==
    IF ~s.raised /\ Truthy(Get(params, "pixelate", FALSE))
    THEN Invoke(s, "pixelate", pixelate(s.heap, s.cur))
    ELSE s

\* apply_transformations with the noise added after the Gaussian blur
apply_transformations_reordered(heap, image, params) ==
    Then(Then(Then(Then(Then(Then(Then(Then(Then(Then(Then(Enter(image_copy(heap, image)),
        LAMBDA s : if_rotation(s, params)),
        LAMBDA s : if_flip_horizontal(s, params)),
        LAMBDA s : if_flip_vertical(s, params)),
        LAMBDA s : if_brightness(s, params)),
        LAMBDA s : if_contrast(s, params)),
        LAMBDA s : if_saturation(s, params)),
        LAMBDA s : if_sharpness(s, params)),
        LAMBDA s : if_gaussian_blur(s, params)),
        LAMBDA s : if_gaussian_noise(s, params)),
        LAMBDA s : if_motion_blur(s, params)),
        LAMBDA s : if_pixelate(s, params))

\* ImageProcessor.apply_transformations: [heap, cur, raised, calls], cur the
\* returned image object
apply_transformations(heap, image, params) ==
    Then(Then(Then(Then(Then(Then(Then(Then(Then(Then(Then(Enter(image_copy(heap, image)),
        LAMBDA s : if_rotation(s, params)),
        LAMBDA s : if_flip_horizontal(s, params)),
        LAMBDA s : if_flip_vertical(s, params)),
        LAMBDA s : if_brightness(s, params)),
        LAMBDA s : if_contrast(s, params)),
        LAMBDA s : if_saturation(s, params)),
        LAMBDA s : if_sharpness(s, params)),
        LAMBDA s : if_gaussian_noise(s, params)),
        LAMBDA s : if_gaussian_blur(s, params)),
        LAMBDA s : if_motion_blur(s, params)),
        LAMBDA s : if_pixelate(s, params))

----------------------------------------------------------------------------
(* Text.                                                                   *)

Letters ==
    {"a", "b", "c", "e", "f", "g", "h", "i", "j", "l", "m", "n", "p",
     "r", "t", "v", "x"}

UpperOf ==
    [c \in Letters |->
        CASE c = "a" -> "A" [] c = "b" -> "B" [] c = "c" -> "C"
          [] c = "e" -> "E" [] c = "f" -> "F" [] c = "g" -> "G"
          [] c = "h" -> "H" [] c = "i" -> "I" [] c = "j" -> "J"
          [] c = "l" -> "L" [] c = "m" -> "M" [] c = "n" -> "N"
          [] c = "p" -> "P" [] c = "r" -> "R" [] c = "t" -> "T"
          [] c = "v" -> "V" [] c = "x" -> "X"]

\* str.lower() on one character, ignoring it altogether
LowerCharIdentity(c) == c

\* str.lower() on one character
LowerChar(c) ==
    IF \E l \in Letters : UpperOf[l] = c
    THEN CHOOSE l \in Letters : UpperOf[l] = c
    ELSE c

\* str.lower()
Lower(s) == [k \in 1..Len(s) |-> LowerChar(s[k])]

\* str.rfind(ch): the last index of ch, 0 when absent (Python: -1)
RFind(s, ch) ==
    IF \E k \in 1..Len(s) : s[k] = ch
    THEN CHOOSE k \in 1..Len(s) : s[k] = ch /\ \A j \in (k+1)..Len(s) : s[j] # ch
    ELSE 0

\* os.path.splitext(p)[1]: from the last dot of the last path component on,
\* unless only dots precede it in that component
SplitExtSuffix(p) ==
    LET sepIndex == RFind(p, "/")
        dotIndex == RFind(p, ".")
    IN  IF dotIndex > sepIndex
           /\ \E k \in (sepIndex + 1)..(dotIndex - 1) : p[k] # "."
        THEN SubSeq(p, dotIndex, Len(p))
        ELSE <<>>

Digit(d) ==
    CASE d = 0 -> "0" [] d = 1 -> "1" [] d = 2 -> "2" [] d = 3 -> "3"
      [] d = 4 -> "4" [] d = 5 -> "5" [] d = 6 -> "6" [] d = 7 -> "7"
      [] d = 8 -> "8" [] d = 9 -> "9"

RECURSIVE Decimal(_)
\* str(n) for n >= 0
Decimal(n) == IF n < 10 THEN <<Digit(n)>> ELSE Decimal(n \div 10) \o <<Digit(n % 10)>>

RECURSIVE ZeroPad(_, _)
ZeroPad(s, width) == IF Len(s) >= width THEN s ELSE ZeroPad(<<"0">> \o s, width)

\* the width of the index field of an output file name
IndexWidth == 4

\* f"{base_name}_{n:04d}.png" with the index field one digit short
ItemFilenameNarrow(base, n) ==
    base \o <<"_">> \o SubSeq(ZeroPad(Decimal(n), IndexWidth), 1, IndexWidth - 1)
         \o <<".", "p", "n", "g">>

\* f"{base_name}_{n:04d}.png"
ItemFilename(base, n) ==
    base \o <<"_">> \o ZeroPad(Decimal(n), IndexWidth) \o <<".", "p", "n", "g">>

----------------------------------------------------------------------------
(* The process-wide random source (module random).  Its state is the seed  *)
(* it was last given and the number of draws since; every draw is a fixed  *)
(* function of that state.  At process start it is seeded from OS entropy, *)
(* modelled by a seed below zero, which random.seed(i) of a loop index     *)
(* never gives.                                                            *)

NEntropy == 2

EntropySeeds == {-e : e \in 1..NEntropy}

\* random.seed(seed)
Seeded(seed) == [seed |-> seed, pos |-> 0]

\* the generator's k-th next output (an abstraction of the Mersenne Twister)
Draw(r, k) ==
    LET p == r.pos + k
        s == r.seed + 50
    IN  (s * s * 31 + s * 211 + p * p * 17 + p * 389 + s * p * 53 + 7) % 1009

Advance(r, n) == [r EXCEPT !.pos = @ + n]

\* random.randint(lo, hi) / random.uniform(lo, hi) in hundredths, from output v
InRange(v, lo, hi) == lo + (v % (hi - lo + 1))

\* random.random() < p, p in hundredths / random.choice([True, False])
Chance(v, p) == v % 100 < p

\* BatchGenerator._generate_random_params: eleven draws, in source order
_generate_random_params(r) ==
    [rng |-> Advance(r, 11),
     ret |-> [rotation        |-> InRange(Draw(r, 0), -30, 30),
              flip_horizontal |-> Chance(Draw(r, 1), 50),
              flip_vertical   |-> Chance(Draw(r, 2), 50),
              brightness      |-> InRange(Draw(r, 3), 70, 130),
              contrast        |-> InRange(Draw(r, 4), 80, 120),
              saturation      |-> InRange(Draw(r, 5), 70, 130),
              sharpness       |-> InRange(Draw(r, 6), 80, 120),
              gaussian_noise  |-> Chance(Draw(r, 7), 30),
              gaussian_blur   |-> Chance(Draw(r, 8), 20),
              motion_blur     |-> Chance(Draw(r, 9), 10),
              pixelate        |-> Chance(Draw(r, 10), 15)]]

\* the clamp without its upper limit
ClampBelowOnly(lo, v, hi) == Max(lo, v)

\* max(lo, min(hi, v))
Clamp(lo, v, hi) == Max(lo, Min(hi, v))

\* value * factor, both in hundredths, rounded to hundredths
Scaled(v, f) == (v * f + 50) \div 100

\* one `if key in varied_params:` block of _vary_preset_params
Jitter(st, key, additive, lo, hi, cmin, cmax) ==
    IF key \in DOMAIN st.ret
    THEN LET d == InRange(Draw(st.rng, 0), lo, hi)
             v == IF additive THEN st.ret[key] + d ELSE Scaled(st.ret[key], d)
         IN  [rng |-> Advance(st.rng, 1), ret |-> Put(st.ret, key, Clamp(cmin, v, cmax))]
    ELSE st

\* _vary_preset_params without random.seed(seed): it draws from the source
\* as it finds it
_vary_preset_params_unseeded(preset, seed) ==
    Then(Then(Then(Then(Then([rng |-> rng, ret |-> preset],
        LAMBDA s : Jitter(s, "rotation", TRUE, -10, 10, -180, 180)),
        LAMBDA s : Jitter(s, "brightness", FALSE, 90, 110, 10, 300)),
        LAMBDA s : Jitter(s, "contrast", FALSE, 95, 105, 10, 300)),
        LAMBDA s : Jitter(s, "saturation", FALSE, 90, 110, 10, 300)),
        LAMBDA s : Jitter(s, "sharpness", FALSE, 95, 105, 10, 300))

\* BatchGenerator._vary_preset_params on the mapping `preset`: the varied copy
\* and the random source it leaves behind
_vary_preset_params(preset, seed) ==
    Then(Then(Then(Then(Then([rng |-> Seeded(seed), ret |-> preset],
        LAMBDA s : Jitter(s, "rotation", TRUE, -10, 10, -180, 180)),
        LAMBDA s : Jitter(s, "brightness", FALSE, 90, 110, 10, 300)),
        LAMBDA s : Jitter(s, "contrast", FALSE, 95, 105, 10, 300)),
        LAMBDA s : Jitter(s, "saturation", FALSE, 90, 110, 10, 300)),
        LAMBDA s : Jitter(s, "sharpness", FALSE, 95, 105, 10, 300))

----------------------------------------------------------------------------
(* Settings.PRESETS and ImageProcessor.get_preset_params.  The three       *)
(* stored mappings are the first three objects of the dict heap.           *)

ml_training == <<"m", "l", "_", "t", "r", "a", "i", "n", "i", "n", "g">>

creative == <<"c", "r", "e", "a", "t", "i", "v", "e">>

enhancement == <<"e", "n", "h", "a", "n", "c", "e", "m", "e", "n", "t">>

PresetKeys == {ml_training, creative, enhancement}

\* Settings.PRESETS: key -> the stored dict object
PRESETS ==
    [k \in PresetKeys |->
        CASE k = ml_training -> 1 [] k = creative -> 2 [] k = enhancement -> 3]

StoredPresets ==
    << [name |-> "ML Training", rotation |-> 15, flip_horizontal |-> TRUE,
        brightness |-> 120, contrast |-> 110, gaussian_noise |-> TRUE],
       [name |-> "Creative", saturation |-> 150, sharpness |-> 130,
        pixelate |-> TRUE],
       [name |-> "Enhancement", brightness |-> 110, contrast |-> 120,
        sharpness |-> 120] >>

NewDict(heap, m) == [heap |-> Put(heap, FreshId(heap), m), ret |-> FreshId(heap)]

\* get_preset_params handing out the stored mapping itself
get_preset_params_shared(heap, preset_name) ==
    LET key == Lower(preset_name)
        preset == IF key \in DOMAIN PRESETS THEN PRESETS[key] ELSE 0
    IN  IF preset # 0 /\ DOMAIN heap[preset] # {}
        THEN [heap |-> heap, ret |-> preset]
        ELSE NewDict(heap, EmptyMap)

\* ImageProcessor.get_preset_params: [heap, ret], ret the returned dict object
get_preset_params(heap, preset_name) ==
    LET key == Lower(preset_name)
        preset == IF key \in DOMAIN PRESETS THEN PRESETS[key] ELSE 0
    IN  IF preset # 0 /\ DOMAIN heap[preset] # {}
        THEN NewDict(heap, heap[preset])
        ELSE NewDict(heap, EmptyMap)

----------------------------------------------------------------------------
(* The state of the process before any call.                               *)

Init ==
    /\ images = EmptyMap
    /\ dicts = StoredPresets
    /\ rng \in {Seeded(e) : e \in EntropySeeds}
    /\ pc = "idle"
    /\ mode = None
    /\ count = 0
    /\ base_name = <<>>
    /\ has_callback = FALSE
    /\ i = 0
    /\ generated_count = 0
    /\ failed_count = 0
    /\ failed_files = <<>>
    /\ preset_params = 0
    /\ augmentation_params = 0
    /\ augmented_image = 0
    /\ err = None
    /\ result = None
    /\ folder = EmptyMap
    /\ folder0 = EmptyMap
    /\ log = <<>>
    /\ t_params = None
    /\ t_out = None
    /\ file_obj = None
    /\ load_out = None
    /\ held = <<>>
    /\ first_ret = EmptyMap
    /\ last_name = None
    /\ last_ret = None

----------------------------------------------------------------------------
(* BatchGenerator.generate_batch and generate_with_preset, one action per  *)
(* statement group of the loop body.  i is the loop variable of            *)
(* `for i in range(count)`; the item's 1-based index is i + 1.             *)

MaxCount == 3

BaseNames == {<<"x">>}

\* the object of the caller's original image: the first image created
original_image == 1

\* the pixels a file left by an earlier run holds
StalePixels == [w |-> 1, h |-> 1, hist |-> <<<<"stale">>>>]

\* what the output folder may hold before the call
InitialFolders(base) == {EmptyMap, Put(EmptyMap, ItemFilename(base, 1), StalePixels)}

\* a loop that ends at the first finished item
LoopHeadOnce(n) == "return"

\* `for i in range(count)`: the next statement once item index n is reached
LoopHead(n) == IF n < count THEN "callback" ELSE "return"

other_vars == <<t_params, t_out, file_obj, load_out, held, first_ret, last_name, last_ret>>

\* lines 18-28 / 93-105 up to the loop: mkdir, the counters, the preset lookup
Enter_generate(m, n, base, cb, size, dir, mkdir_ok, dheap, pp) ==
    /\ pc = "idle"
    /\ mode' = m
    /\ count' = n
    /\ base_name' = base
    /\ has_callback' = cb
    /\ images' = Put(EmptyMap, original_image, Pixels(size[1], size[2]))
    /\ folder0' = dir
    /\ folder' = dir
    /\ log' = <<>>
    /\ i' = 0
    /\ augmentation_params' = 0
    /\ augmented_image' = 0
    /\ err' = IF mkdir_ok THEN None ELSE "cannot create folder"
    /\ result' = None
    /\ IF mkdir_ok
       THEN /\ generated_count' = 0
            /\ failed_count' = 0
            /\ failed_files' = <<>>
            /\ dicts' = dheap
            /\ preset_params' = pp
            /\ pc' = IF 0 < n THEN "callback" ELSE "return"
       ELSE /\ pc' = "raised"
            /\ UNCHANGED <<generated_count, failed_count, failed_files, dicts,
                           preset_params>>
    /\ UNCHANGED <<rng, other_vars>>

generate_batch(counts) ==
    \E n \in counts, base \in BaseNames, cb \in BOOLEAN, size \in ImageSizes,
       mkdir_ok \in BOOLEAN :
        \E dir \in InitialFolders(base) :
            Enter_generate("random", n, base, cb, size, dir, mkdir_ok, dicts, 0)

\* the preset names a caller passes
PresetInputs ==
    PresetKeys \cup {<<"C", "r", "e", "a", "t", "i", "v", "e">>, <<"n", "o", "n", "e">>}

generate_with_preset(counts, names) ==
    \E n \in counts, base \in BaseNames, cb \in BOOLEAN, size \in ImageSizes,
       mkdir_ok \in BOOLEAN, preset_type \in names :
        \E dir \in InitialFolders(base) :
            LET got == get_preset_params(dicts, preset_type)
            IN  Enter_generate("preset", n, base, cb, size, dir, mkdir_ok,
                               got.heap, got.ret)

\* the progress callback called outside the try
handler_of_uncovered_callback(statement) ==
    IF statement = "callback" THEN "raised" ELSE "except"

\* lines 30, 48 / 108, 126: `try: ... except Exception as e` around the whole
\* loop body: where control goes when the named statement raises
handler_of(statement) == "except"

\* the callback's arguments with the 0-based loop variable for the index
progress_args_zero_based(n, total, base) == <<n, total, ItemFilename(base, n)>>

\* progress_callback(i + 1, count, f"{base_name}_{i+1:04d}.png")
progress_args(n, total, base) == <<n + 1, total, ItemFilename(base, n + 1)>>

\* the handler forgetting the file
record_failure_dropped(files, n, base, message) == files

\* failed_files.append((f"{base_name}_{i+1:04d}.png", str(e)))
record_failure(files, n, base, message) ==
    Append(files, <<ItemFilename(base, n + 1), message>>)

\* lines 32-33 / 110-111: the progress callback, which is caller code and may raise
Callback ==
    /\ pc = "callback"
    /\ IF has_callback
       THEN /\ log' = Append(log, <<"callback">> \o progress_args(i, count, base_name))
            /\ \E raises \in BOOLEAN :
                IF raises
                THEN pc' = handler_of("callback") /\ err' = "callback error"
                ELSE pc' = "params" /\ err' = err
       ELSE /\ pc' = "params"
            /\ UNCHANGED <<log, err>>
    /\ UNCHANGED <<images, dicts, rng, mode, count, base_name, has_callback, i,
                   generated_count, failed_count, failed_files, preset_params,
                   augmentation_params, augmented_image, result, folder, folder0,
                   other_vars>>

\* line 36 / 114: the item's parameters, a new dict object
Params ==
    /\ pc = "params"
    /\ \E raises \in BOOLEAN :
        IF raises
        THEN /\ pc' = handler_of("params")
             /\ err' = "parameter error"
             /\ UNCHANGED <<dicts, rng, augmentation_params, log>>
        ELSE LET drawn == IF mode = "random"
                          THEN _generate_random_params(rng)
                          ELSE _vary_preset_params(dicts[preset_params], i)
                 made == NewDict(dicts, drawn.ret)
             IN  /\ rng' = drawn.rng
                 /\ dicts' = made.heap
                 /\ augmentation_params' = made.ret
                 /\ log' = Append(log, <<"params", i + 1>>)
                 /\ pc' = "transform"
                 /\ err' = err
    /\ UNCHANGED <<images, mode, count, base_name, has_callback, i,
                   generated_count, failed_count, failed_files, preset_params,
                   augmented_image, result, folder, folder0, other_vars>>

\* line 39 / 117: apply_transformations on the original image; the engine's
\* intermediate images are unreachable once it returns
Transform ==
    /\ pc = "transform"
    /\ LET r == apply_transformations(images, original_image, dicts[augmentation_params])
       IN  \E raises \in BOOLEAN :
            IF raises \/ r.raised
            THEN /\ pc' = handler_of("transform")
                 /\ err' = IF r.raised THEN "height and width must be > 0"
                                       ELSE "engine error"
                 /\ images' = Collect(r.heap, {original_image})
                 /\ UNCHANGED <<augmented_image, log>>
            ELSE /\ pc' = "save"
                 /\ augmented_image' = r.cur
                 /\ images' = Collect(r.heap, {original_image, r.cur})
                 /\ log' = Append(log, <<"transform", i + 1>>)
                 /\ err' = err
    /\ UNCHANGED <<dicts, rng, mode, count, base_name, has_callback, i,
                   generated_count, failed_count, failed_files, preset_params,
                   augmentation_params, result, folder, folder0, other_vars>>

\* the objects the loop body created are unreachable in the next iteration
LiveDicts == (DOMAIN dicts) \ {augmentation_params}

\* lines 42-46 / 120-124: the PNG file and the success counter.  A failed
\* save removes the file it created; a file that was there before stays,
\* as it was or truncated.
Save ==
    /\ pc = "save"
    /\ LET filename == ItemFilename(base_name, i + 1)
       IN  \E io_ok \in BOOLEAN, truncated \in BOOLEAN :
            IF io_ok
            THEN /\ truncated = FALSE
                 /\ folder' = Put(folder, filename, images[augmented_image])
                 /\ generated_count' = generated_count + 1
                 /\ log' = Append(log, <<"write", i + 1, filename>>)
                 /\ i' = i + 1
                 /\ pc' = LoopHead(i + 1)
                 /\ dicts' = Collect(dicts, LiveDicts)
                 /\ images' = Collect(images, {original_image})
                 /\ augmentation_params' = 0
                 /\ augmented_image' = 0
                 /\ err' = err
            ELSE /\ IF filename \in DOMAIN folder /\ truncated
                    THEN folder' = Put(folder, filename, StalePixels)
                    ELSE truncated = FALSE /\ folder' = folder
                 /\ pc' = handler_of("save")
                 /\ err' = "io error"
                 /\ UNCHANGED <<generated_count, log, i, dicts, images,
                                augmentation_params, augmented_image>>
    /\ UNCHANGED <<rng, mode, count, base_name, has_callback, failed_count,
                   failed_files, preset_params, result, folder0, other_vars>>

\* lines 48-51 / 126-129: the handler of the loop body's try
Except ==
    /\ pc = "except"
    /\ failed_count' = failed_count + 1
    /\ failed_files' = record_failure(failed_files, i, base_name, err)
    /\ log' = Append(log, <<"failed", i + 1>>)
    /\ i' = i + 1
    /\ pc' = LoopHead(i + 1)
    /\ err' = None
    /\ dicts' = Collect(dicts, LiveDicts)
    /\ images' = Collect(images, {original_image})
    /\ augmentation_params' = 0
    /\ augmented_image' = 0
    /\ UNCHANGED <<rng, mode, count, base_name, has_callback, generated_count,
                   preset_params, result, folder, folder0, other_vars>>

\* lines 53-58 / 131-136
Return ==
    /\ pc = "return"
    /\ result' = [requested |-> count, generated |-> generated_count,
                  failed |-> failed_count, failed_files |-> failed_files]
    /\ pc' = "returned"
    /\ UNCHANGED <<images, dicts, rng, mode, count, base_name, has_callback, i,
                   generated_count, failed_count, failed_files, preset_params,
                   augmentation_params, augmented_image, err, folder, folder0,
                   log, other_vars>>

LoopBody == Callback \/ Params \/ Transform \/ Save \/ Except \/ Return

Next ==
    \/ generate_batch(0..MaxCount)
    \/ generate_with_preset(0..MaxCount, PresetInputs)
    \/ LoopBody

Spec == Init /\ [][Next]_vars

\* the call runs on once it has started: no statement of it waits
FairSpec == Spec /\ WF_vars(LoopBody)

----------------------------------------------------------------------------
(* A direct call of ImageProcessor.apply_transformations, on every mapping *)
(* that gives each of the eleven keys no value, its no-op value or a value *)
(* that is not.                                                            *)

ParamKeys ==
    {"rotation", "flip_horizontal", "flip_vertical", "brightness", "contrast",
     "saturation", "sharpness", "gaussian_noise", "gaussian_blur",
     "motion_blur", "pixelate"}

FactorKeys == {"brightness", "contrast", "saturation", "sharpness"}

\* for each key, a value that does nothing and one that does
SampleValue(key, active) ==
    IF key = "rotation" THEN (IF active THEN 15 ELSE 0)
    ELSE IF key \in FactorKeys THEN (IF active THEN 120 ELSE 100)
    ELSE active

SampleMapping(f) ==
    [k \in {x \in ParamKeys : f[x] # "absent"} |-> SampleValue(k, f[k] = "active")]

ApplyDirect ==
    /\ pc = "idle"
    /\ \E f \in [ParamKeys -> {"absent", "noop", "active"}], size \in ImageSizes :
        LET heap == Put(EmptyMap, original_image, Pixels(size[1], size[2]))
            r == apply_transformations(heap, original_image, SampleMapping(f))
        IN  /\ t_params' = [params |-> SampleMapping(f), pixels |-> heap[original_image]]
            /\ t_out' = r
            /\ images' = r.heap
    /\ pc' = "applied"
    /\ UNCHANGED <<dicts, rng, mode, count, base_name, has_callback, i,
                   generated_count, failed_count, failed_files, preset_params,
                   augmentation_params, augmented_image, err, result, folder,
                   folder0, log, file_obj, load_out, held, first_ret, last_name, last_ret>>

InitPipeline == Init /\ rng = Seeded(-1)

NextPipeline == ApplyDirect \/ Next

SpecPipeline == InitPipeline /\ [][NextPipeline]_vars

----------------------------------------------------------------------------
(* A direct call of one AugmentationEngine operation that takes a factor   *)
(* or a size, on an image of a few pixels or of many.                      *)

\* image sizes around the default block size, and an ordinary one
EngineSizes ==
    {<<1, 1>>, <<4, 3>>, <<5, 3>>, <<5, 5>>, <<7, 20>>, <<10, 4>>, <<800, 600>>}

FactorOps ==
    {"adjust_brightness", "adjust_contrast", "adjust_saturation", "adjust_sharpness"}

SizeOps == {"gaussian_blur", "motion_blur", "pixelate"}

\* factors in hundredths
Factors == {-50, 0, 10, 100, 300}

KernelSizes == {-3, -1, 0, 1, 4, 5, 6, 15, 700}

\* AugmentationEngine.<op>(image, arg)
EngineCall(heap, image, op, arg, refuses) ==
    CASE op = "adjust_brightness" -> adjust_brightness(heap, image, arg)
      [] op = "adjust_contrast" -> adjust_contrast(heap, image, arg)
      [] op = "adjust_saturation" -> adjust_saturation(heap, image, arg)
      [] op = "adjust_sharpness" -> adjust_sharpness(heap, image, arg)
      [] op = "gaussian_blur" -> gaussian_blur_sized(heap, image, arg, refuses)
      [] op = "motion_blur" -> motion_blur_sized(heap, image, arg)
      [] op = "pixelate" -> pixelate_sized(heap, image, arg)

CallEngine ==
    /\ pc = "idle"
    /\ \E op \in FactorOps \cup SizeOps, size \in EngineSizes, refuses \in BOOLEAN :
        \E arg \in IF op \in FactorOps THEN Factors ELSE KernelSizes :
            LET heap == Put(EmptyMap, original_image, Pixels(size[1], size[2]))
                r == EngineCall(heap, original_image, op, arg, refuses)
            IN  /\ t_params' = [op |-> op, arg |-> arg, pixels |-> heap[original_image]]
                /\ t_out' = r
                /\ images' = r.heap
    /\ pc' = "called"
    /\ UNCHANGED <<dicts, rng, mode, count, base_name, has_callback, i,
                   generated_count, failed_count, failed_files, preset_params,
                   augmentation_params, augmented_image, err, result, folder,
                   folder0, log, file_obj, load_out, held, first_ret, last_name,
                   last_ret>>

SpecEngine == InitPipeline /\ [][CallEngine]_vars

----------------------------------------------------------------------------
(* IEEE 754 double arithmetic, as far as resize_if_needed uses it: the     *)
(* quotient of two positive integers, the product of a positive integer    *)
(* and a double, comparison and truncation, for integers below 2^13.  A    *)
(* positive double is [m, e]: the 53-bit significand m as five digits,     *)
(* most significant first, the first the leading 1 and four of 13 bits     *)
(* each, and the exponent e of the leading bit.  Every operation rounds    *)
(* to nearest, ties to even, as the hardware does.                         *)

Limb == 2^13

\* the significand one unit in the last place up
Successor(m, e) ==
    IF \A k \in 2..5 : m[k] = Limb - 1
    THEN [m |-> <<1, 0, 0, 0, 0>>, e |-> e + 1]
    ELSE LET j == CHOOSE k \in 2..5 :
                    m[k] < Limb - 1 /\ \A n \in (k + 1)..5 : m[n] = Limb - 1
         IN  [m |-> [k \in 1..5 |->
                       IF k < j THEN m[k] ELSE IF k = j THEN m[k] + 1 ELSE 0],
              e |-> e]

\* round to nearest, ties to even; `half` compares the discarded part with
\* half a unit in the last place: -1 below, 0 equal, 1 above
RoundNearestEven(m, e, half) ==
    IF half > 0 \/ (half = 0 /\ m[5] % 2 = 1)
    THEN Successor(m, e)
    ELSE [m |-> m, e |-> e]

\* one more 13-bit digit of a quotient by long division
DivStep(st, den) ==
    [m |-> Append(st.m, (st.rem * Limb) \div den), rem |-> (st.rem * Limb) % den]

\* a / b for integers 0 < a, b < 2^13 (Python's true division is correctly
\* rounded)
FDiv(a, b) ==
    LET up == IF a >= b
              THEN CHOOSE k \in 0..13 : b * 2^k <= a /\ a < b * 2^(k + 1)
              ELSE 0
        down == IF a >= b
                THEN 0
                ELSE CHOOSE k \in 1..13 : a * 2^k >= b /\ a * 2^(k - 1) < b
        num == a * 2^down
        den == b * 2^up
    IN  Then(Then(Then(Then(Then([m |-> <<1>>, rem |-> num - den],
            LAMBDA s : DivStep(s, den)),
            LAMBDA s : DivStep(s, den)),
            LAMBDA s : DivStep(s, den)),
            LAMBDA s : DivStep(s, den)),
            LAMBDA q : RoundNearestEven(q.m, up - down,
                            IF 2 * q.rem > den THEN 1
                            ELSE IF 2 * q.rem = den THEN 0 ELSE -1))

\* digit k of the significand times n, plus the carry from the digit below
MulStep(st, m, n) ==
    [k |-> st.k - 1,
     carry |-> (m[st.k] * n + st.carry) \div Limb,
     out |-> <<(m[st.k] * n + st.carry) % Limb>> \o st.out]

\* n * x for an integer 1 <= n < 2^13 (n converts to a double exactly): the
\* exact product is top * 2^52 + the four digits of low; its lowest `shift`
\* bits are rounded away
FMulInt(n, x) ==
    Then(Then(Then(Then(Then([k |-> 5, carry |-> 0, out |-> <<>>],
        LAMBDA s : MulStep(s, x.m, n)),
        LAMBDA s : MulStep(s, x.m, n)),
        LAMBDA s : MulStep(s, x.m, n)),
        LAMBDA s : MulStep(s, x.m, n)),
        LAMBDA p :
            LET top == x.m[1] * n + p.carry
                low == p.out
                shift == CHOOSE k \in 0..13 : 2^k <= top /\ top < 2^(k + 1)
                digits == <<top>> \o low
                shifted == [k \in 1..5 |->
                              IF k = 1 THEN top \div (2^shift)
                              ELSE (digits[k - 1] % (2^shift)) * 2^(13 - shift)
                                   + (digits[k] \div 2^shift)]
                dropped == low[4] % (2^shift)
                half == IF shift = 0 \/ 2 * dropped < 2^shift THEN -1
                        ELSE IF 2 * dropped = 2^shift THEN 0 ELSE 1
            IN  RoundNearestEven(shifted, x.e + shift, half))

\* x < y
FLess(x, y) ==
    \/ x.e < y.e
    \/ /\ x.e = y.e
       /\ \E j \in 1..5 :
            /\ x.m[j] < y.m[j]
            /\ \A k \in 1..(j - 1) : x.m[k] = y.m[k]

\* min(x, y)
FMin(x, y) == IF FLess(y, x) THEN y ELSE x

\* int(x), for x < 2^14
FTrunc(x) == IF x.e < 0 THEN 0 ELSE 2^(x.e) + (x.m[2] \div 2^(13 - x.e))

----------------------------------------------------------------------------
(* utils.helpers and ImageProcessor.load_and_validate_image.               *)

SUPPORTED_FORMATS ==
    {<<"j", "p", "g">>, <<"j", "p", "e", "g">>, <<"p", "n", "g">>,
     <<"b", "m", "p">>, <<"t", "i", "f", "f">>}

MAX_IMAGE_SIZE == 2000

MAX_FILE_SIZE == 10 * 1024 * 1024

\* helpers.validate_file_format
validate_file_format(filename, supported_formats) ==
    IF filename = <<>>
    THEN FALSE
    ELSE LET suffix == SplitExtSuffix(Lower(filename))
             extension == SubSeq(suffix, 2, Len(suffix))
         IN  extension \in supported_formats

\* validate_file_size refusing a file of exactly the maximum
validate_file_size_strict(file_size, max_size) == file_size < max_size

\* helpers.validate_file_size: the size is where seek(0, 2) ends
validate_file_size(file_size, max_size) == file_size <= max_size

\* helpers.resize_if_needed on an image of the given size: [raised, w, h,
\* resized].  Image.resize refuses a size with a dimension below 1.
resize_if_needed(width, height, max_size) ==
    IF width > max_size \/ height > max_size
    THEN LET ratio == FMin(FDiv(max_size, width), FDiv(max_size, height))
             new_width == FTrunc(FMulInt(width, ratio))
             new_height == FTrunc(FMulInt(height, ratio))
         IN  IF new_width < 1 \/ new_height < 1
             THEN [raised |-> TRUE, w |-> 0, h |-> 0, resized |-> TRUE]
             ELSE [raised |-> FALSE, w |-> new_width, h |-> new_height,
                   resized |-> TRUE]
    ELSE [raised |-> FALSE, w |-> width, h |-> height, resized |-> FALSE]

\* ImageProcessor.load_and_validate_image: what the call ends with, whether
\* Image.open was reached, and where it leaves the stream
load_and_validate_image(f) ==
    IF ~validate_file_format(f.name, SUPPORTED_FORMATS)
    THEN [kind |-> "UnsupportedFormat", w |-> 0, h |-> 0, opened |-> FALSE,
          resized |-> FALSE]
    ELSE IF ~validate_file_size(f.size, MAX_FILE_SIZE)
    THEN [kind |-> "FileTooLarge", w |-> 0, h |-> 0, opened |-> FALSE,
          resized |-> FALSE]
    ELSE IF ~f.decodable
    THEN [kind |-> "InvalidImage", w |-> 0, h |-> 0, opened |-> TRUE,
          resized |-> FALSE]
    ELSE Then(resize_if_needed(f.w, f.h, MAX_IMAGE_SIZE),
              LAMBDA r :
                IF r.raised
                THEN [kind |-> "InvalidImage", w |-> 0, h |-> 0, opened |-> TRUE,
                      resized |-> TRUE]
                ELSE [kind |-> "image", w |-> r.w, h |-> r.h, opened |-> TRUE,
                      resized |-> r.resized])

\* the uploaded file names tried
FileNames ==
    {<<"a", ".", "p", "n", "g">>, <<"A", ".", "P", "N", "G">>,
     <<"a", ".", "J", "p", "g">>, <<"a", ".", "j", "p", "e", "g">>,
     <<"a", ".", "b", "m", "p">>, <<"a", ".", "T", "I", "F", "F">>,
     <<"a", ".", "t", "i", "f">>, <<"a", ".", "g", "i", "f">>,
     <<"a", ".", "p", "n", "g", ".", "g", "i", "f">>,
     <<"a", ".", "g", "i", "f", ".", "p", "n", "g">>,
     <<"p", "n", "g">>, <<".", "p", "n", "g">>,
     <<"a", ".", "b", "/", "p", "n", "g">>, <<"a", ".">>, <<>>}

FileSizes == {1, MAX_FILE_SIZE - 1, MAX_FILE_SIZE, MAX_FILE_SIZE + 1}

\* widths and heights of the decoded image
Dimensions == {1, 600, 800, 1500, 2000, 2001, 2105, 3000, 4000, 4001}

Load ==
    /\ pc = "idle"
    /\ \E name \in FileNames, size \in FileSizes, decodable \in BOOLEAN :
        \E w \in IF decodable THEN Dimensions ELSE {0},
           h \in IF decodable THEN Dimensions ELSE {0} :
            LET f == [name |-> name, size |-> size, decodable |-> decodable,
                      w |-> w, h |-> h]
            IN  /\ file_obj' = f
                /\ load_out' = load_and_validate_image(f)
    /\ pc' = "loaded"
    /\ UNCHANGED <<images, dicts, rng, mode, count, base_name, has_callback, i,
                   generated_count, failed_count, failed_files, preset_params,
                   augmentation_params, augmented_image, err, result, folder,
                   folder0, log, t_params, t_out, held, first_ret, last_name, last_ret>>

SpecLoad == InitPipeline /\ [][Load]_vars

----------------------------------------------------------------------------
(* A caller of ImageProcessor.get_preset_params: held lists the mappings   *)
(* it got and still holds, first_ret what the first call with each name    *)
(* returned, last_name and last_ret the latest call and what it returned.  *)

\* the text k with the letters at the positions in `upper` in upper case
Cased(k, upper) ==
    [j \in 1..Len(k) |->
        IF j \in upper /\ k[j] \in Letters THEN UpperOf[k[j]] ELSE k[j]]

\* every casing of the three preset keys, and names that are no key
LookupNames ==
    UNION {{Cased(k, upper) : upper \in SUBSET (1..Len(k))} : k \in PresetKeys}
    \cup {<<>>, <<"n", "o", "n", "e">>, <<"m", "l">>,
          <<"m", "l", " ", "t", "r", "a", "i", "n", "i", "n", "g">>,
          <<"M", "L", "T", "R", "A", "I", "N", "I", "N", "G">>,
          <<"c", "r", "e", "a", "t", "i", "v", "e", "_">>,
          <<"C", "r", "e", "a", "t", "i", "v">>,
          <<"n", "a", "m", "e">>}

\* the objects Settings.PRESETS refers to
StoredIds == {PRESETS[k] : k \in PresetKeys}

Elements(seq) == {seq[k] : k \in 1..Len(seq)}

\* processor.get_preset_params(name) by a caller with room for the result
GetPreset(names, room) ==
    /\ pc = "idle"
    /\ Len(held) < room
    /\ \E name \in names :
        LET got == get_preset_params(dicts, name)
        IN  /\ dicts' = got.heap
            /\ held' = Append(held, got.ret)
            /\ last_name' = name
            /\ last_ret' = got.heap[got.ret]
            /\ first_ret' = IF name \in DOMAIN first_ret
                            THEN first_ret
                            ELSE Put(first_ret, name, got.heap[got.ret])
    /\ UNCHANGED <<images, rng, batch_vars, t_params, t_out, file_obj, load_out>>

SpecLookup == InitPipeline /\ [][GetPreset(LookupNames, 1)]_vars

----------------------------------------------------------------------------
(* The caller going on: it changes the mappings it holds, varies them,     *)
(* forgets them, and runs preset batches in between.                       *)

MaxHeld == 2

\* the names the caller asks for
CallerNames ==
    {ml_training, <<"C", "r", "e", "a", "t", "i", "v", "e">>, <<"n", "o", "n", "e">>}

\* the seeds the caller varies with
VarySeeds == {0, 7}

\* d after one statement of the caller: d[k] = v for a new or a present key,
\* or del d[k] for a present one
Mutations(d) ==
    {Put(d, "rotation", 175), Put(d, "extra", TRUE)}
    \cup {Del(d, k) : k \in (DOMAIN d) \cap {"rotation", "extra"}}

Mutate ==
    /\ pc = "idle"
    /\ \E h \in 1..Len(held) :
        \E m \in Mutations(dicts[held[h]]) :
            dicts' = [x \in DOMAIN dicts |-> IF x = held[h] THEN m ELSE dicts[x]]
    /\ UNCHANGED <<images, rng, batch_vars, t_params, t_out, file_obj, load_out,
                   held, first_ret, last_name, last_ret>>

\* generator._vary_preset_params(held mapping, seed), the result not kept
Vary ==
    /\ pc = "idle"
    /\ \E h \in 1..Len(held), seed \in VarySeeds :
        LET varied == _vary_preset_params(dicts[held[h]], seed)
            made == NewDict(dicts, varied.ret)
        IN  /\ rng' = varied.rng
            /\ dicts' = Collect(made.heap, StoredIds \cup Elements(held))
    /\ UNCHANGED <<images, batch_vars, t_params, t_out, file_obj, load_out,
                   held, first_ret, last_name, last_ret>>

\* the caller lets go of a mapping
Drop ==
    /\ pc = "idle"
    /\ \E h \in 1..Len(held) :
        LET rest == SubSeq(held, 1, h - 1) \o SubSeq(held, h + 1, Len(held))
        IN  /\ held' = rest
            /\ dicts' = Collect(dicts, StoredIds \cup Elements(rest))
    /\ UNCHANGED <<images, rng, batch_vars, t_params, t_out, file_obj, load_out,
                   first_ret, last_name, last_ret>>

\* a preset batch started by a caller holding no mapping of its own
RunPreset(counts) ==
    /\ held = <<>>
    /\ generate_with_preset(counts, CallerNames)

\* the batch call is over: its locals and the image are gone
CallOver ==
    /\ pc \in {"returned", "raised"}
    /\ pc' = "idle"
    /\ mode' = None
    /\ count' = 0
    /\ base_name' = <<>>
    /\ has_callback' = FALSE
    /\ i' = 0
    /\ generated_count' = 0
    /\ failed_count' = 0
    /\ failed_files' = <<>>
    /\ preset_params' = 0
    /\ augmentation_params' = 0
    /\ augmented_image' = 0
    /\ err' = None
    /\ result' = None
    /\ folder' = EmptyMap
    /\ folder0' = EmptyMap
    /\ log' = <<>>
    /\ images' = EmptyMap
    /\ UNCHANGED rng

ReturnToCaller ==
    /\ CallOver
    /\ dicts' = Collect(dicts, StoredIds \cup Elements(held))
    /\ UNCHANGED other_vars

NextPreset ==
    \/ GetPreset(CallerNames, MaxHeld)
    \/ Mutate
    \/ Vary
    \/ Drop
    \/ RunPreset(1..2)
    \/ LoopBody
    \/ ReturnToCaller

SpecPreset == InitPipeline /\ [][NextPreset]_vars

----------------------------------------------------------------------------
(* A direct call of BatchGenerator._vary_preset_params on a dict object of *)
(* the caller, with values inside and outside the documented domains.      *)
(* held lists the calls made so far: <<base, seed, returned mapping>>.     *)

\* preset_params.copy() handing back preset_params itself
dict_copy_alias(heap, d) == [heap |-> heap, ret |-> d]

\* dict.copy(): a new dict object with the same items
dict_copy(heap, d) == NewDict(heap, heap[d])

\* _vary_preset_params on the dict object `base`: the copy of line
\* 143 and the updates of lines 146-164, which are made in the copy
vary_call(heap, base, seed) ==
    LET varied_params == dict_copy(heap, base)
        varied == _vary_preset_params(varied_params.heap[varied_params.ret], seed)
    IN  [heap |-> [x \in DOMAIN varied_params.heap |->
                     IF x = varied_params.ret THEN varied.ret
                     ELSE varied_params.heap[x]],
         ret |-> varied_params.ret,
         rng |-> varied.rng]

JitterKeys == {"rotation", "brightness", "contrast", "saturation", "sharpness"}

OtherKeys == {"name", "flip_horizontal"}

\* three values of each jittered key: below its domain, inside it and near or
\* above its upper end (factors in hundredths)
VaryValue(key, n) ==
    CASE key = "rotation" -> <<-500, 15, 175>>[n]
      [] key = "brightness" -> <<-100, 5, 310>>[n]
      [] key = "contrast" -> <<0, 120, 1000>>[n]
      [] key = "saturation" -> <<10, 150, 300>>[n]
      [] key = "sharpness" -> <<11, 130, 290>>[n]

OtherValue(key) == IF key = "name" THEN "Custom" ELSE TRUE

\* the mapping with jittered key k at its f[k]-th value (0: absent) and the
\* keys of `others`
BaseMapping(f, others) ==
    [k \in {j \in JitterKeys : f[j] # 0} \cup others |->
        IF k \in others THEN OtherValue(k) ELSE VaryValue(k, f[k])]

AllBases ==
    {BaseMapping(f, others) : f \in [JitterKeys -> 0..3], others \in SUBSET OtherKeys}

\* the seeds of the direct calls
DirectSeeds == {0, 1, 5}

VaryDirect(bases, room) ==
    /\ pc = "idle" \/ (pc = "varied" /\ Len(held) < room)
    /\ \E base \in bases, seed \in DirectSeeds :
        LET made == NewDict(dicts, base)
            r == vary_call(made.heap, made.ret, seed)
            call == <<base, seed, r.heap[r.ret]>>
        IN  /\ t_params' = [base |-> base, seed |-> seed]
            /\ t_out' = [ret |-> r.heap[r.ret],
                         base_after |-> r.heap[made.ret],
                         distinct |-> r.ret # made.ret]
            /\ rng' = r.rng
            /\ dicts' = Collect(r.heap, StoredIds)
            /\ held' = IF Len(held) < room /\ call \notin Elements(held)
                       THEN Append(held, call)
                       ELSE held
    /\ pc' = "varied"
    /\ UNCHANGED <<images, mode, count, base_name, has_callback, i,
                   generated_count, failed_count, failed_files, preset_params,
                   augmentation_params, augmented_image, err, result, folder,
                   folder0, log, file_obj, load_out, first_ret, last_name,
                   last_ret>>

SpecVary == InitPipeline /\ [][VaryDirect(AllBases, 0)]_vars

----------------------------------------------------------------------------
(* Calls of _vary_preset_params with other draws from the random source in *)
(* between, and a preset batch after draws.                                *)

MaxCalls == 3

MaxDraws == 2

\* the mappings varied again and again: a stored preset, another, none
FewBases == {StoredPresets[1], StoredPresets[2], EmptyMap}

\* a call of _generate_random_params outside a batch: eleven draws
RandomDirect ==
    /\ pc \in {"idle", "varied"}
    /\ rng.pos < 11 * MaxDraws
    /\ rng' = _generate_random_params(rng).rng
    /\ UNCHANGED <<images, dicts, batch_vars, other_vars>>

NextReseed ==
    \/ VaryDirect(FewBases, MaxCalls)
    \/ RandomDirect
    \/ generate_with_preset(1..2, {ml_training, creative})
    \/ LoopBody

SpecReseed == InitPipeline /\ [][NextReseed]_vars

----------------------------------------------------------------------------
(* A random batch after a preset batch in the same process.  held is what  *)
(* the preset batch did: its count, the jittered keys of its preset and    *)
(* the items whose parameters were drawn.                                  *)

\* the preset batch has returned its result and the caller goes on
PresetRunOver ==
    /\ mode = "preset"
    /\ pc = "returned"
    /\ held = <<>>
    /\ CallOver
    /\ held' = <<[count |-> count,
                  keys |-> (DOMAIN dicts[preset_params]) \cap JitterKeys,
                  varied |-> {log[k][2] : k \in {j \in 1..Len(log) : log[j][1] = "params"}}]>>
    /\ dicts' = Collect(dicts, StoredIds)
    /\ UNCHANGED <<t_params, t_out, file_obj, load_out, first_ret, last_name,
                   last_ret>>

NextRuns ==
    \/ RunPreset(1..2)
    \/ PresetRunOver
    \/ generate_batch(1..2)
    \/ LoopBody

SpecRuns == Init /\ [][NextRuns]_vars

----------------------------------------------------------------------------
(* What the claims speak of, read off the event log of the running call.  *)
(* An event is <<kind, item index, ...>>.                                  *)

\* the name the output contract gives item n: base, "_", four digits, ".png"
ClaimedName(base, n) ==
    base \o <<"_", Digit((n \div 1000) % 10), Digit((n \div 100) % 10),
              Digit((n \div 10) % 10), Digit(n % 10), ".", "p", "n", "g">>

EventsOf(kind) == SelectSeq(log, LAMBDA e : e[1] = kind)

ItemsWith(kind) == {log[k][2] : k \in {j \in 1..Len(log) : log[j][1] = kind}}

RECURSIVE Ascending(_)
\* the members of a set of integers in increasing order
Ascending(S) ==
    IF S = {} THEN <<>>
    ELSE LET least == CHOOSE n \in S : \A m \in S : n <= m
         IN  <<least>> \o Ascending(S \ {least})

\* the loop is between two iterations, or over
BetweenItems == pc \in {"callback", "return", "returned"}

\* C1: after each completed iteration generated_count + failed_count is the
\* number of items attempted and len(failed_files) = failed_count; the returned
\* result has requested = count, generated + failed = count, and failed_files
\* names exactly the items that wrote no file, in increasing index order.
C1_Accounting ==
    /\ BetweenItems =>
        /\ generated_count + failed_count = i
        /\ Len(failed_files) = failed_count
    /\ pc = "returned" =>
        LET unwritten == Ascending((1..count) \ ItemsWith("write"))
        IN  /\ result.requested = count
            /\ result.generated + result.failed = count
            /\ Len(result.failed_files) = Len(unwritten)
            /\ result.failed = Len(unwritten)
            /\ \A k \in 1..Len(unwritten) :
                result.failed_files[k][1] = ClaimedName(base_name, unwritten[k])

C1_Witness ==
    /\ pc = "returned"
    /\ count >= 3
    /\ result.failed >= 2
    /\ result.generated >= 1

\* C2: an exception in item i's iteration, wherever it is raised, adds one to
\* failed, appends (the item's file name, the error's message) to failed_files,
\* leaves generated alone and goes on with the next item; when the call
\* returns, every index 1..count was attempted exactly once, in order.
C2_FailureIsolated ==
    /\ [][pc = "except" =>
            /\ failed_count' = failed_count + 1
            /\ failed_files' = Append(failed_files, <<ClaimedName(base_name, i + 1), err>>)
            /\ err # None
            /\ generated_count' = generated_count
            /\ i' = i + 1
            /\ pc' = IF i + 1 < count THEN "callback" ELSE "return"]_vars
    /\ [](pc = "returned" =>
            LET ended == SelectSeq(log, LAMBDA e : e[1] \in {"write", "failed"})
            IN  /\ Len(ended) = count
                /\ \A k \in 1..count : ended[k][2] = k)

C2_Witness ==
    /\ pc = "returned"
    /\ count >= 3
    /\ \E k \in 1..Len(log) : log[k] = <<"failed", 1>>
    /\ \E k \in 1..Len(log) : log[k] = <<"failed", 2>>
    /\ 3 \in ItemsWith("write")
    /\ {result.failed_files[k][2] : k \in 1..Len(result.failed_files)}
        = {"callback error", "io error"}

\* C3: a supplied progress callback is invoked exactly count times, the k-th
\* time with (k, count, item k's file name); item k's call comes before
\* anything else of item k and after everything of the items before it.
C3_Progress ==
    LET calls == EventsOf("callback")
    IN  IF has_callback
        THEN /\ \A k \in 1..Len(calls) :
                    calls[k] = <<"callback", k, count, ClaimedName(base_name, k)>>
             /\ pc = "returned" => Len(calls) = count
             /\ pc = "callback" => Len(calls) = i
             /\ pc \in {"params", "transform", "save"} => Len(calls) = i + 1
             /\ \A a, b \in 1..Len(log) :
                    log[a][1] = "callback" /\ log[b][1] # "callback"
                        => (a < b <=> log[b][2] >= log[a][2])
        ELSE Len(calls) = 0

C3_Witness ==
    /\ pc = "returned"
    /\ has_callback
    /\ count >= 3
    /\ Len(EventsOf("callback")) = 3
    /\ result.failed >= 1
    /\ result.generated >= 1

\* indices on both sides of each width of the index field
ProbeIndices == (1..11) \cup (98..101) \cup (998..1001) \cup (9998..10001)

ClaimedOrder ==
    <<"rotate", "flip_horizontal", "flip_vertical", "adjust_brightness",
      "adjust_contrast", "adjust_saturation", "adjust_sharpness",
      "add_gaussian_noise", "gaussian_blur", "motion_blur", "pixelate">>

KeyOf(op) ==
    CASE op = "rotate" -> "rotation"
      [] op = "adjust_brightness" -> "brightness"
      [] op = "adjust_contrast" -> "contrast"
      [] op = "adjust_saturation" -> "saturation"
      [] op = "adjust_sharpness" -> "sharpness"
      [] op = "add_gaussian_noise" -> "gaussian_noise"
      [] OTHER -> op

NoOpValue(key) ==
    IF key = "rotation" THEN 0 ELSE IF key \in FactorKeys THEN 100 ELSE FALSE

\* the operation's parameter is present and is not its no-op value
Requested(params, op) ==
    KeyOf(op) \in DOMAIN params /\ params[KeyOf(op)] # NoOpValue(KeyOf(op))

\* C5: the engine operations apply_transformations invokes are exactly those of
\* the fixed order whose parameter is present and differs from its no-op
\* value, in that order, each on the image the one before returned (the first
\* on the copy of the input); with none requested the result has the input's
\* pixels.
C5_PipelineOrder ==
    pc = "applied" =>
        LET calls == t_out.calls
            wanted == SelectSeq(ClaimedOrder, LAMBDA op : Requested(t_params.params, op))
        IN  /\ [k \in 1..Len(calls) |-> calls[k].op] = wanted
            /\ \A k \in 2..Len(calls) : calls[k].arg = calls[k - 1].ret
            /\ Len(calls) > 0 =>
                /\ t_out.heap[calls[1].arg] = t_params.pixels
                /\ t_out.cur = calls[Len(calls)].ret
            /\ Len(calls) = 0 =>
                /\ ~t_out.raised
                /\ t_out.heap[t_out.cur] = t_params.pixels

C5_Witness ==
    /\ pc = "applied"
    /\ Len(t_out.calls) = 3
    /\ t_out.calls[1].op = "flip_vertical"
    /\ t_out.calls[2].op = "add_gaussian_noise"
    /\ t_out.calls[3].op = "gaussian_blur"
    /\ "rotation" \in DOMAIN t_params.params
    /\ "brightness" \in DOMAIN t_params.params
    /\ "pixelate" \notin DOMAIN t_params.params

NoRepeat(hist) == \A a, b \in 1..Len(hist) : a # b => hist[a][1] # hist[b][1]

\* C6: apply_transformations leaves the pixels of the image it was given as
\* they were and returns another object, whatever the mapping; in a batch the
\* original keeps its decoded pixels throughout, the image saved is never the
\* original object, and every file written holds pixels that are one pass of
\* the pipeline away from the original.
C6_OriginalUntouched ==
    /\ pc = "applied" =>
        /\ t_out.heap[original_image] = t_params.pixels
        /\ ~t_out.raised => t_out.cur # original_image
    /\ pc \in {"callback", "params", "transform", "save", "except", "return", "returned"} =>
        /\ images[original_image].hist = <<>>
        /\ <<images[original_image].w, images[original_image].h>> \in ImageSizes
        /\ pc = "save" => augmented_image # original_image
        /\ \A k \in 1..Len(log) :
            log[k][1] = "write" =>
                /\ NoRepeat(folder[log[k][3]].hist)
                /\ folder[log[k][3]].w = images[original_image].w
                /\ folder[log[k][3]].h = images[original_image].h

C6_Witness ==
    /\ pc = "applied"
    /\ \A k \in DOMAIN t_params.params :
        t_params.params[k] = NoOpValue(k)
    /\ DOMAIN t_params.params = ParamKeys
    /\ ~t_out.raised

\* the extensions the loader is specified to accept
ClaimedFormats ==
    {<<"j", "p", "g">>, <<"j", "p", "e", "g">>, <<"p", "n", "g">>,
     <<"b", "m", "p">>, <<"t", "i", "f", "f">>}

\* text a is the lower-case text b in some casing
CaseVariant(a, b) ==
    /\ Len(a) = Len(b)
    /\ \A k \in 1..Len(b) :
        a[k] = b[k] \/ (b[k] \in Letters /\ a[k] = UpperOf[b[k]])

\* the file name ends in a dot and ext, the dot following a proper stem (some
\* character of the same path component that is not a dot)
HasExtension(name, ext) ==
    \E d \in 1..Len(name) :
        /\ name[d] = "."
        /\ CaseVariant(SubSeq(name, d + 1, Len(name)), ext)
        /\ \E k \in 1..(d - 1) :
            /\ name[k] \notin {".", "/"}
            /\ \A j \in k..d : name[j] # "/"

ClaimedSupported(name) == \E ext \in ClaimedFormats : HasExtension(name, ext)

\* C7: load_and_validate_image returns an image only for a file whose
\* extension is supported in some casing, whose size is at most the maximum
\* (the maximum itself included) and which decodes; otherwise it fails with
\* the kind of the first check violated, in the order format, size, decode,
\* and a file failing the format or the size check is never opened.
C7_LoadValidation ==
    pc = "loaded" =>
        LET supported == ClaimedSupported(file_obj.name)
            fits == file_obj.size <= 10 * 1024 * 1024
        IN  /\ load_out.kind \in {"image", "UnsupportedFormat", "FileTooLarge",
                                  "InvalidImage"}
            /\ load_out.kind = "image" => supported /\ fits /\ file_obj.decodable
            /\ ~supported =>
                load_out.kind = "UnsupportedFormat" /\ ~load_out.opened
            /\ supported /\ ~fits =>
                load_out.kind = "FileTooLarge" /\ ~load_out.opened
            /\ supported /\ fits /\ ~file_obj.decodable =>
                load_out.kind = "InvalidImage"
            /\ supported /\ fits => load_out.opened
            /\ load_out.kind = "UnsupportedFormat" => ~supported
            /\ load_out.kind = "FileTooLarge" => supported /\ ~fits

C7_Witness ==
    /\ pc = "loaded"
    /\ file_obj.name = <<"A", ".", "P", "N", "G">>
    /\ file_obj.size = 10 * 1024 * 1024
    /\ file_obj.decodable
    /\ load_out.kind = "image"

\* C8: a decoded image with a dimension above the maximum M loads as an image
\* whose larger dimension is exactly M and whose smaller one keeps the aspect
\* ratio to within a pixel; one within M on both sides loads with its
\* dimensions as they were.
C8_ResizeExact ==
    (pc = "loaded" /\ load_out.opened /\ file_obj.decodable) =>
        LET w == file_obj.w
            h == file_obj.h
        IN  /\ load_out.kind = "image"
            /\ (w > 2000 \/ h > 2000) =>
                /\ Max(load_out.w, load_out.h) = 2000
                /\ (load_out.w * h - load_out.h * w) \in (0 - Max(w, h))..Max(w, h)
            /\ (w <= 2000 /\ h <= 2000) =>
                /\ load_out.w = w
                /\ load_out.h = h

\* the title the stored preset of key k carries
ClaimedTitle(k) ==
    CASE k = ml_training -> "ML Training"
      [] k = creative -> "Creative"
      [] k = enhancement -> "Enhancement"

\* what the lookup of the key itself gives
ResultFor(k) ==
    LET got == get_preset_params(StoredPresets, k) IN got.heap[got.ret]

\* C9: the lookup of any casing of a preset key gives what the lookup of the
\* key itself gives, the preset of that key; the lookup of a name that is no
\* key in any casing gives the empty mapping.
C9_CaseInsensitiveLookup ==
    Len(held) = 1 =>
        LET got == dicts[held[1]]
        IN  /\ \A k \in PresetKeys :
                CaseVariant(last_name, k) =>
                    /\ got = ResultFor(k)
                    /\ "name" \in DOMAIN got
                    /\ got["name"] = ClaimedTitle(k)
            /\ (\A k \in PresetKeys : ~CaseVariant(last_name, k)) =>
                got = EmptyMap

C9_Witness ==
    /\ Len(held) = 1
    /\ last_name = <<"M", "l", "_", "T", "R", "a", "i", "N", "i", "n", "G">>
    /\ DOMAIN dicts[held[1]] =
        {"name", "rotation", "flip_horizontal", "brightness", "contrast",
         "gaussian_noise"}

\* C10: whatever the caller did with the mappings it got, and whatever
\* batches ran, the stored presets are as they were at the start, and the
\* latest get_preset_params returned what the first one with that name did.
C10_StoredPresetsUnchanged ==
    /\ \A k \in PresetKeys : dicts[PRESETS[k]] = StoredPresets[PRESETS[k]]
    /\ DOMAIN first_ret # {} =>
        /\ last_name \in DOMAIN first_ret
        /\ last_ret = first_ret[last_name]

\* a second lookup of ml_training after the first result lost a key, gained
\* another and was varied
C10_Witness ==
    /\ pc = "idle"
    /\ Len(held) = 2
    /\ last_name = ml_training
    /\ "rotation" \notin DOMAIN dicts[held[1]]
    /\ "extra" \in DOMAIN dicts[held[1]]
    /\ dicts[held[2]] = StoredPresets[1]
    /\ rng.seed = 7

\* the statements of the loop and the return after it
InsideCall == {"callback", "params", "transform", "save", "except", "return"}

\* C11: the call raises to its caller only on entry, when the output folder
\* cannot be created, and then no callback was invoked, no file written and
\* no item attempted; once the folder is there the call goes on to return a
\* result, after count attempts.
C11_WholeFailure ==
    /\ [][pc' = "raised" => pc = "idle"]_vars
    /\ [](pc = "raised" =>
            /\ err = "cannot create folder"
            /\ log = <<>>
            /\ folder = folder0
            /\ i = 0
            /\ result = None)
    /\ [](pc \in InsideCall =>
            <>(/\ pc = "returned"
               /\ i = count
               /\ result.requested = count
               /\ result.generated + result.failed = count))

C11_Witness ==
    /\ pc = "raised"
    /\ mode = "preset"
    /\ count = 2
    /\ has_callback
    /\ err = "cannot create folder"

\* C12: pixelate with a block size of 1 or more succeeds on every image and
\* returns an image of the original size, made from the floor(width/size) by
\* floor(height/size) one; with a block as wide or high as the image or more
\* that is a single block, not a failure.
C12_PixelateTotal ==
    (pc = "called" /\ t_params.op = "pixelate" /\ t_params.arg >= 1) =>
        /\ ~t_out.raised
        /\ t_out.heap[t_out.ret].w = t_params.pixels.w
        /\ t_out.heap[t_out.ret].h = t_params.pixels.h
        /\ t_out.heap[t_out.ret].hist =
            <<<<"pixelate", Max(1, t_params.pixels.w \div t_params.arg),
                            Max(1, t_params.pixels.h \div t_params.arg)>>>>

\* C13: a factor operation fails on a factor of 0 or less, a size operation
\* on a size of 0 or less, and no operation fails on parameters above 0.
C13_InvalidParameter ==
    pc = "called" => (t_out.raised <=> t_params.arg <= 0)

\* C14: the mapping _vary_preset_params returns has the keys of base and no
\* other, differs from base at most at the five jittered keys, and base is
\* as it was after the call, the result being another object.
C14_VaryFrame ==
    pc = "varied" =>
        /\ DOMAIN t_out.ret = DOMAIN t_params.base
        /\ \A k \in DOMAIN t_params.base :
            k \notin {"rotation", "brightness", "contrast", "saturation", "sharpness"}
                => t_out.ret[k] = t_params.base[k]
        /\ t_out.base_after = t_params.base
        /\ t_out.distinct

C14_Witness ==
    /\ pc = "varied"
    /\ DOMAIN t_params.base = {"rotation", "sharpness", "name", "flip_horizontal"}
    /\ t_out.ret["rotation"] # t_params.base["rotation"]
    /\ t_out.ret["sharpness"] # t_params.base["sharpness"]

\* C15: in the mapping returned, rotation is base's plus an integer of
\* -10..10, clamped to -180..180, and each of the four factors is within
\* 0.1..3.0, whatever base held.
C15_VaryClamped ==
    pc = "varied" =>
        /\ "rotation" \in DOMAIN t_out.ret =>
            /\ t_out.ret["rotation"] \in -180..180
            /\ \E d \in -10..10 :
                LET v == t_params.base["rotation"] + d
                IN  t_out.ret["rotation"] =
                        IF v < -180 THEN -180 ELSE IF v > 180 THEN 180 ELSE v
        /\ \A k \in {"brightness", "contrast", "saturation", "sharpness"} :
            k \in DOMAIN t_out.ret => t_out.ret[k] \in 10..300

C15_Witness ==
    /\ pc = "varied"
    /\ {"rotation", "contrast", "brightness"} \subseteq DOMAIN t_params.base
    /\ t_params.base["rotation"] = -500
    /\ t_out.ret["rotation"] = -180
    /\ t_params.base["contrast"] = 1000
    /\ t_out.ret["contrast"] = 300
    /\ t_params.base["brightness"] = -100
    /\ t_out.ret["brightness"] = 10

\* C16: two calls of _vary_preset_params with the same base and the same seed
\* return the same mapping, whatever was drawn in between; and in a preset
\* batch the parameters of item n (1-based) are those of the call with seed
\* n - 1 on the preset, whatever was drawn before the batch.
C16_VaryReproducible ==
    /\ \A a, b \in Elements(held) :
        (a[1] = b[1] /\ a[2] = b[2]) => a[3] = b[3]
    /\ (pc = "transform" /\ mode = "preset") =>
        /\ rng.seed = i
        /\ log[Len(log)] = <<"params", i + 1>>
        /\ dicts[augmentation_params] =
            Then(NewDict(EmptyMap, dicts[preset_params]),
                 LAMBDA made :
                    Then(vary_call(made.heap, made.ret, i),
                         LAMBDA r : r.heap[r.ret]))

\* the call with seed 5 made again after a call with seed 0
C16_Witness ==
    /\ pc = "varied"
    /\ Len(held) = 2
    /\ held[1][1] = StoredPresets[1]
    /\ held[1][2] = 5
    /\ held[2][1] = StoredPresets[1]
    /\ held[2][2] = 0
    /\ t_params = [base |-> StoredPresets[1], seed |-> 5]
    /\ rng.pos = 3

\* the random source after `sets` parameter sets were drawn from it as the
\* preset item of index `item` with `k` jittered keys left it
LeftBy(item, k, sets) == [seed |-> item - 1, pos |-> k + 11 * sets]

DrawnSets == Cardinality({k \in 1..Len(log) : log[k][1] = "params"})

\* C17 as stated: in a random batch after a preset batch of count n >= 1, the
\* random source, and so every parameter set drawn, is fixed by n and by the
\* jittered keys of the preset.
C17_AfterPreset ==
    (mode = "random" /\ pc \in InsideCall /\ held # <<>>) =>
        rng = LeftBy(held[1].count, Cardinality(held[1].keys), DrawnSets)

\* C17: in a random batch after a preset batch, the random source, and so
\* every parameter set drawn, is fixed by the index of the last item of the
\* preset batch whose parameters were drawn (its count when no item failed
\* before that) and by the jittered keys of the preset; when no item got that
\* far the source is as the process started it.
C17_AfterVariedItem ==
    (mode = "random" /\ pc \in InsideCall /\ held # <<>>) =>
        /\ held[1].varied # {} =>
            \E last \in held[1].varied :
                /\ \A n \in held[1].varied : n <= last
                /\ rng = LeftBy(last, Cardinality(held[1].keys), DrawnSets)
        /\ held[1].varied = {} =>
            rng = [seed |-> rng.seed, pos |-> 11 * DrawnSets] /\ rng.seed < 0

C17_Witness ==
    /\ mode = "random"
    /\ pc = "transform"
    /\ i = 1
    /\ held # <<>>
    /\ held[1].count = 2
    /\ held[1].varied = {1, 2}
    /\ held[1].keys = {"rotation", "brightness", "contrast"}
    /\ rng = [seed |-> 1, pos |-> 25]

====
